---- MODULE Spec2Model ----
(***************************************************************************)
(* StoryViewer (story viewer component of storyTimeAI): the asset prefetch *)
(* pipeline, the single audio playback session and page navigation.        *)
(*                                                                         *)
(* Granularity.  Every event handler, effect and promise continuation of   *)
(* the component is one action: it runs from its start (or from the await  *)
(* it resumes at) to the next await, as JavaScript's run-to-completion     *)
(* does.  React state written by an action is visible to the next action   *)
(* (the component has re-rendered before the next event is handled).       *)
(* Page indices are 0-based, as in the source.                             *)
(***************************************************************************)
EXTENDS Integers, Sequences, FiniteSets, TLC

\* ---------------------------------------------------------------- bounds
NumPages == 2          \* pages.length of the story that is shown
MaxSessions == 2       \* session numbers: the live session and the one play() creates

\* ------------------------------------------------------- values and inputs
Undefined == <<>>      \* an optional field that is not set
Null == 0              \* a ref holding null; sessions are numbered from 1

PageIdx == 0 .. NumPages - 1

\* The story texts and prompts of page i, when present (distinct per page).
Texts == <<"A", "B", "C", "D">>
Prompts == <<"p1", "p2", "p3", "p4">>
TextOf(i) == Texts[i + 1]
PromptOf(i) == Prompts[i + 1]
Empty == ""            \* the empty string (falsy in the guards of prefetchAssets)

\* The stories the viewer may be given: a page's text / imagePrompt is its own
\* string or the empty string, and at most one page of a story has an empty one.
StoryPage == [i \in PageIdx |-> [text : {Empty, TextOf(i)}, imagePrompt : {Empty, PromptOf(i)}]]
Incomplete(s) == {i \in PageIdx : s[i].text = Empty \/ s[i].imagePrompt = Empty}
Stories ==
  {s \in [PageIdx -> UNION {StoryPage[i] : i \in PageIdx}] :
     /\ \A i \in PageIdx : s[i] \in StoryPage[i]
     /\ \A i, j \in Incomplete(s) : i = j}

\* Results of the Remote Content Gateway and of the decode utility, tagged by
\* their argument so that a value stored on the wrong page is visible.
generateImage(prompt) == <<"data:image/png;base64", prompt>>
generateSpeech(text) == <<"base64PCM", text>>
decodeAudioData(audioData) == <<"AudioBuffer", audioData[2]>>

VARIABLES
  pages,             \* props.pages: the immutable story
  storyPages,        \* useState: StoryPageState[]
  currentPageIndex,  \* useState
  playbackStatus,    \* useState: "stopped" | "playing" | "paused"
  shouldAutoplay,    \* useState: the autoplay intent
  audioContextRef,   \* useRef: the session's AudioContext (session number) or Null
  audioSourceRef,    \* useRef: the session's AudioBufferSourceNode or Null
  sessions,          \* every AudioContext + source created by play, by number
  pending,           \* suspend()/resume() promises handlePlayPauseToggle awaits
  late,              \* ended events queued for sources that have been released
  pf,                \* where prefetchAssets is suspended
  fetchLog,          \* the gateway calls issued so far, in order
  mounted,           \* the component is mounted
  raised,            \* an exception escaped stopAudio
  autoplays,         \* automatic plays since the intent was last armed
  armedUnready       \* the intent was last armed for a page without audioBuffer

vars == <<pages, storyPages, currentPageIndex, playbackStatus, shouldAutoplay,
          audioContextRef, audioSourceRef, sessions, pending, late, pf, fetchLog,
          mounted, raised, autoplays, armedUnready>>

\* ------------------------------------------------------ per-page asset state
\* useState initializer of storyPages: the page plus cleared flags.
InitialPageState(p) ==
  [text |-> p.text, imagePrompt |-> p.imagePrompt,
   imageUrl |-> Undefined, audioData |-> Undefined, audioBuffer |-> Undefined,
   isImageLoading |-> FALSE, isAudioLoading |-> FALSE,
   imageError |-> FALSE, audioError |-> FALSE]

\* { ...record, ...updates }
Merge(record, updates) ==
  [f \in DOMAIN record |-> IF f \in DOMAIN updates THEN updates[f] ELSE record[f]]

\* A mutant of updatePage: the update lands on the page after index.
updatePageShifted(sp, index, updates) ==
  LET j == (index + 1) % NumPages IN [sp EXCEPT ![j] = Merge(sp[j], updates)]

\* updatePage(index, updates) applied to the page list sp.
updatePage(sp, index, updates) ==
  [sp EXCEPT ![index] = Merge(sp[index], updates)]

\* setStoryPages is dropped by React once the component is unmounted.
setStoryPages(sp) == IF mounted THEN sp ELSE storyPages

currentPage == storyPages[currentPageIndex]

\* ---------------------------------------------------------- prefetch pipeline
\* prefetchAssets is suspended at one await at a time.  Slot k = 2*i is the
\* image of page i, slot 2*i + 1 its audio.
Slots == 2 * NumPages
\* A mutant of PageOfSlot: the loop starts at the page displayed.
PageOfSlotDisplayedFirst(k) == (currentPageIndex + k \div 2) % NumPages
PageOfSlot(k) == k \div 2
Suspended(k, phase, data) == [k |-> k, phase |-> phase, data |-> data]

\* The storyPages the effect closed over: those of the first render.
renderedAtMount == [i \in PageIdx |-> InitialPageState(pages[i])]

\* The loop of prefetchAssets from slot k up to its next await (or its end):
\* the page list it leaves, where it is suspended, the gateway call it issued.
RECURSIVE prefetchAssets(_, _)
prefetchAssets(sp, k) ==
  IF k >= Slots
  THEN [sp |-> sp, pf |-> Suspended(k, "done", Undefined), issued |-> <<>>]
  ELSE LET i == PageOfSlot(k) IN
       IF k % 2 = 0
       THEN IF pages[i].imagePrompt # Empty /\ renderedAtMount[i].imageUrl = Undefined
            THEN [sp |-> updatePage(sp, i, [isImageLoading |-> TRUE]),
                  pf |-> Suspended(k, "image", Undefined),
                  issued |-> << <<i, "image">> >>]
            ELSE prefetchAssets(sp, k + 1)
       ELSE IF pages[i].text # Empty /\ renderedAtMount[i].audioBuffer = Undefined
            THEN [sp |-> updatePage(sp, i, [isAudioLoading |-> TRUE]),
                  pf |-> Suspended(k, "speech", Undefined),
                  issued |-> << <<i, "audio">> >>]
            ELSE prefetchAssets(sp, k + 1)

\* The pipeline resumes with the page list sp at slot k.
Resume(sp, k) ==
  LET r == prefetchAssets(sp, k) IN
  /\ storyPages' = setStoryPages(r.sp)
  /\ pf' = r.pf
  /\ fetchLog' = fetchLog \o r.issued
  /\ UNCHANGED <<pages, currentPageIndex, playbackStatus, shouldAutoplay,
                 audioContextRef, audioSourceRef, sessions, pending, late, mounted,
                 raised, autoplays, armedUnready>>

\* The mount effect calls prefetchAssets().
PrefetchStart ==
  /\ pf.phase = "start"
  /\ Resume(storyPages, 0)

\* await generateImage(...) returns.
ImageResolved ==
  /\ pf.phase = "image"
  /\ LET i == PageOfSlot(pf.k)
         imageUrl == generateImage(pages[i].imagePrompt)
     IN Resume(updatePage(storyPages, i, [imageUrl |-> imageUrl, isImageLoading |-> FALSE]),
               pf.k + 1)

\* A mutant of ImageRejected: the failed image fetch is issued again.
ImageRejectedRetrying ==
  /\ pf.phase = "image"
  /\ Resume(updatePage(storyPages, PageOfSlot(pf.k), [isImageLoading |-> FALSE, imageError |-> TRUE]),
            pf.k)

\* A mutant of ImageRejected: the page whose image failed is given up, its
\* audio is not fetched.
ImageRejectedSkippingAudio ==
  /\ pf.phase = "image"
  /\ Resume(updatePage(storyPages, PageOfSlot(pf.k), [isImageLoading |-> FALSE, imageError |-> TRUE]),
            pf.k + 2)

\* await generateImage(...) throws.
ImageRejected ==
  /\ pf.phase = "image"
  /\ Resume(updatePage(storyPages, PageOfSlot(pf.k), [isImageLoading |-> FALSE, imageError |-> TRUE]),
            pf.k + 1)

\* await generateSpeech(...) returns a payload; decode() accepts it and
\* the pipeline awaits decodeAudioData.
SpeechResolved ==
  /\ pf.phase = "speech"
  /\ pf' = Suspended(pf.k, "decode", generateSpeech(pages[PageOfSlot(pf.k)].text))
  /\ UNCHANGED <<pages, storyPages, currentPageIndex, playbackStatus, shouldAutoplay,
                 audioContextRef, audioSourceRef, sessions, pending, late, fetchLog,
                 mounted, raised, autoplays, armedUnready>>

\* A mutant of SpeechFailed: the catch records the error and leaves
\* isAudioLoading set.
SpeechFailedStillLoading ==
  /\ pf.phase = "speech"
  /\ Resume(updatePage(storyPages, PageOfSlot(pf.k), [audioError |-> TRUE]), pf.k + 1)

\* await generateSpeech(...) throws, or returns a payload decode() throws on.
SpeechFailed ==
  /\ pf.phase = "speech"
  /\ Resume(updatePage(storyPages, PageOfSlot(pf.k), [isAudioLoading |-> FALSE, audioError |-> TRUE]),
            pf.k + 1)

\* await decodeAudioData(...) returns; the pipeline awaits tempAudioContext.close().
DecodeResolved ==
  /\ pf.phase = "decode"
  /\ pf' = Suspended(pf.k, "close", pf.data)
  /\ UNCHANGED <<pages, storyPages, currentPageIndex, playbackStatus, shouldAutoplay,
                 audioContextRef, audioSourceRef, sessions, pending, late, fetchLog,
                 mounted, raised, autoplays, armedUnready>>

\* A mutant of DecodeRejected: the failure ends prefetchAssets.
DecodeRejectedAborting ==
  /\ pf.phase = "decode"
  /\ Resume(updatePage(storyPages, PageOfSlot(pf.k), [isAudioLoading |-> FALSE, audioError |-> TRUE]),
            Slots)

\* await decodeAudioData(...) throws.
DecodeRejected ==
  /\ pf.phase = "decode"
  /\ Resume(updatePage(storyPages, PageOfSlot(pf.k), [isAudioLoading |-> FALSE, audioError |-> TRUE]),
            pf.k + 1)

\* await tempAudioContext.close() throws: the catch records the failure and
\* the decoded audio is not stored.
CloseRejected ==
  /\ pf.phase = "close"
  /\ Resume(updatePage(storyPages, PageOfSlot(pf.k), [isAudioLoading |-> FALSE, audioError |-> TRUE]),
            pf.k + 1)

\* A mutant of CloseResolved: the decoded buffer is stored without the payload.
CloseResolvedBufferOnly ==
  /\ pf.phase = "close"
  /\ LET i == PageOfSlot(pf.k)
         audioBuffer == decodeAudioData(pf.data)
     IN Resume(updatePage(storyPages, i, [audioBuffer |-> audioBuffer, isAudioLoading |-> FALSE]),
               pf.k + 1)

\* await tempAudioContext.close() returns: the decoded audio is stored.
CloseResolved ==
  /\ pf.phase = "close"
  /\ LET i == PageOfSlot(pf.k)
         audioData == pf.data
         audioBuffer == decodeAudioData(audioData)
     IN Resume(updatePage(storyPages, i,
                 [audioData |-> audioData, audioBuffer |-> audioBuffer, isAudioLoading |-> FALSE]),
               pf.k + 1)

\* ------------------------------------------------------- playback controller
\* Sessions are the AudioContexts (each with its one source node) that
\* playAudioForCurrentPage created and that are not closed or that a ref
\* holds.  Any other closed context is garbage and leaves the map: a promise
\* of it that is still awaited is kept with ctx = Null, an ended event that
\* is queued for its source is kept in late.
SessionIds == 1 .. MaxSessions

\* What stopAudio and playAudioForCurrentPage read and write.
Playback ==
  [sessions |-> sessions, audioContextRef |-> audioContextRef,
   audioSourceRef |-> audioSourceRef, playbackStatus |-> playbackStatus,
   raised |-> raised]

\* new AudioContext + createBufferSource: buffer bound, onended set, started.
\* playing: the source was started and has not stopped or finished;
\* endedQueued: its ended event is queued;
\* resumed: a resume() of the context has completed (history).
NewSession(buffer) ==
  [buffer |-> buffer, state |-> "running", playing |-> TRUE,
   onended |-> TRUE, endedQueued |-> FALSE, resumed |-> FALSE]

\* The sessions that are open or that a ref holds.
Collect(ss, refs) ==
  LET keep == {id \in DOMAIN ss : ss[id].state # "closed" \/ id \in refs}
  IN [id \in keep |-> ss[id]]

\* The ended events queued for the sources that leave the map, each with
\* whether the source still has its onended handler.
Released(ss, refs) ==
  {ss[id].onended : id \in {j \in DOMAIN ss \ DOMAIN Collect(ss, refs) : ss[j].endedQueued}}

\* The promise p once its context is collected: ctx = Null.
Orphaned(p, ss) == [op |-> p.op, ctx |-> IF p.ctx \in DOMAIN ss THEN p.ctx ELSE Null]

\* The awaited promises, those of collected contexts with ctx = Null.
Orphan(pend, ss) == {Orphaned(p, ss) : p \in pend}

\* A mutant of StopSource: onended is left set, so the ended event that
\* stop() queues reaches the handler.
StopSourceKeepingHandler(ss, s) ==
  [ss EXCEPT ![s] = [@ EXCEPT !.playing = FALSE,
                              !.endedQueued = ss[s].playing \/ @]]

\* source.onended = null; source.stop(): the source stops playing.  stop()
\* queues the ended event of a source that was playing; an event queued
\* before stays queued.
StopSource(ss, s) ==
  [ss EXCEPT ![s] = [@ EXCEPT !.onended = FALSE, !.playing = FALSE,
                              !.endedQueued = ss[s].playing \/ @]]

\* A mutant of stopAudio: the source's stop() is not wrapped in try/catch.
stopAudioUncaught(pb, throws) ==
  LET s == pb.audioSourceRef IN
  IF s # Null /\ throws /\ ~pb.sessions[s].playing
  THEN [pb EXCEPT !.sessions[s].onended = FALSE, !.raised = TRUE]
  ELSE LET stopped == IF s # Null THEN StopSource(pb.sessions, s) ELSE pb.sessions
           c == pb.audioContextRef
           closed == IF c # Null /\ stopped[c].state # "closed"
                     THEN [stopped EXCEPT ![c].state = "closed"] ELSE stopped
       IN [pb EXCEPT !.sessions = closed, !.audioContextRef = Null,
                     !.audioSourceRef = Null, !.playbackStatus = "stopped"]

\* A mutant of stopAudio: the AudioContext is not closed.
stopAudioNoClose(pb, throws) ==
  LET s == pb.audioSourceRef
      stopped == IF s # Null THEN StopSource(pb.sessions, s) ELSE pb.sessions
  IN [pb EXCEPT !.sessions = stopped, !.audioContextRef = Null,
                !.audioSourceRef = Null, !.playbackStatus = "stopped"]

\* stopAudio(): throws tells whether the engine's source.stop() throws when
\* the source is not playing any more (stopAudio catches it).
stopAudio(pb, throws) ==
  LET s == pb.audioSourceRef
      stopped == IF s # Null THEN StopSource(pb.sessions, s) ELSE pb.sessions
      c == pb.audioContextRef
      closed == IF c # Null /\ stopped[c].state # "closed"
                THEN [stopped EXCEPT ![c].state = "closed"] ELSE stopped
  IN [pb EXCEPT !.sessions = closed, !.audioContextRef = Null,
                !.audioSourceRef = Null, !.playbackStatus = "stopped"]

\* A mutant of playAudioForCurrentPage: the session is created without
\* stopAudio() first.
playAudioForCurrentPageNoStop(pb, page, throws) ==
  IF page.audioBuffer = Undefined THEN pb
  ELSE LET id == CHOOSE j \in SessionIds \ DOMAIN pb.sessions : TRUE
       IN [pb EXCEPT !.sessions = [j \in DOMAIN @ \cup {id} |->
                                     IF j = id THEN NewSession(page.audioBuffer) ELSE @[j]],
                     !.audioContextRef = id, !.audioSourceRef = id,
                     !.playbackStatus = "playing"]

\* A session number no session has that exists when play is called.
FreshId(ss) == CHOOSE id \in SessionIds \ DOMAIN ss : \A j \in SessionIds \ DOMAIN ss : id <= j

\* playAudioForCurrentPage() with the page it closed over.
playAudioForCurrentPage(pb, page, throws) ==
  IF page.audioBuffer = Undefined THEN pb
  ELSE LET st == stopAudio(pb, throws)
           id == FreshId(pb.sessions)
       IN IF st.raised THEN st
          ELSE [st EXCEPT !.sessions = [j \in DOMAIN @ \cup {id} |->
                                          IF j = id THEN NewSession(page.audioBuffer) ELSE @[j]],
                          !.audioContextRef = id, !.audioSourceRef = id,
                          !.playbackStatus = "playing"]

\* The playback state pb is written back; pend are the promises still
\* awaited, lt the ended events still queued for released sources.
SetPlayback(pb, pend, lt) ==
  /\ sessions' = Collect(pb.sessions, {pb.audioContextRef, pb.audioSourceRef})
  /\ pending' = Orphan(pend, Collect(pb.sessions, {pb.audioContextRef, pb.audioSourceRef}))
  /\ late' = lt \cup Released(pb.sessions, {pb.audioContextRef, pb.audioSourceRef})
  /\ audioContextRef' = pb.audioContextRef
  /\ audioSourceRef' = pb.audioSourceRef
  /\ playbackStatus' = pb.playbackStatus
  /\ raised' = pb.raised

\* play creates a session: there is a session number left for it (at most
\* one session exists when play is called).
CanCreate(page) == page.audioBuffer # Undefined => SessionIds \ DOMAIN sessions # {}

\* The state of context c; a collected context is closed.
CtxState(c) == IF c \in DOMAIN sessions THEN sessions[c].state ELSE "closed"

\* audioContextRef.current?.state
RefState == IF audioContextRef = Null THEN Undefined ELSE <<sessions[audioContextRef].state>>

\* setPlaybackStatus is dropped by React once the component is unmounted.
setPlaybackStatus(v) == IF mounted THEN v ELSE playbackStatus

\* ------------------------------------------------------------ event handlers
\* isPlayButtonDisabled: the play/pause button takes no click.
isPlayButtonDisabled ==
  currentPage.isAudioLoading \/ currentPage.audioError \/ currentPage.audioBuffer = Undefined

\* The promise of op on the context the ref holds.  Each call is a promise of
\* its own and the code sets no limit to the promises unsettled at a time.
\* pending holds one entry for all the unsettled promises of one op on one
\* context: a call adds the entry, and when a promise settles the entry
\* stays if another promise of the same op on the same context is unsettled.
Awaited(op) == [op |-> op, ctx |-> audioContextRef]

\* handlePlayPauseToggle up to its await (or its end when it awaits nothing).
handlePlayPauseToggle ==
  /\ shouldAutoplay' = FALSE
  /\ IF playbackStatus = "playing"
     THEN /\ pending' = IF RefState = <<"running">>
                        THEN pending \cup {Awaited("suspend")} ELSE pending
          /\ UNCHANGED <<sessions, late, audioContextRef, audioSourceRef, playbackStatus, raised>>
     ELSE IF playbackStatus = "paused"
     THEN /\ pending' = IF RefState = <<"suspended">>
                        THEN pending \cup {Awaited("resume")} ELSE pending
          /\ UNCHANGED <<sessions, late, audioContextRef, audioSourceRef, playbackStatus, raised>>
     ELSE /\ CanCreate(currentPage)
          /\ \E throws \in BOOLEAN :
               SetPlayback(playAudioForCurrentPage(Playback, currentPage, throws), pending, late)
  /\ UNCHANGED <<pages, storyPages, currentPageIndex, pf, fetchLog, mounted, autoplays, armedUnready>>

\* A click on the play/pause button.
ClickPlayPause ==
  /\ mounted
  /\ ~isPlayButtonDisabled
  /\ handlePlayPauseToggle

\* One promise of p, an awaited suspend(), settles: the context is suspended
\* and the handler goes on to setPlaybackStatus('paused').  The promise of a
\* context that was closed meanwhile resolves or rejects; rejected, the
\* handler ends there.  Another promise of p may stay unsettled.
SettleSuspend(p) ==
  \E resolves \in BOOLEAN : \E rest \in {pending, pending \ {p}} :
    /\ p.op = "suspend"
    /\ resolves \/ CtxState(p.ctx) = "closed"
    /\ pending' = rest
    /\ sessions' = IF CtxState(p.ctx) = "running"
                   THEN [sessions EXCEPT ![p.ctx].state = "suspended"] ELSE sessions
    /\ playbackStatus' = IF resolves THEN setPlaybackStatus("paused") ELSE playbackStatus
    /\ UNCHANGED <<pages, storyPages, currentPageIndex, shouldAutoplay, audioContextRef,
                   audioSourceRef, late, pf, fetchLog, mounted, raised, autoplays,
                   armedUnready>>

\* await audioContextRef.current.suspend() settles.
SuspendSettled == \E p \in pending : SettleSuspend(p)

\* A mutant of ResumeSettled: resuming starts the page's audio anew.
ResumeSettledRecreating ==
  \E p \in pending :
    /\ p.op = "resume"
    /\ p.ctx # Null
    /\ p.ctx = audioContextRef
    /\ CanCreate(currentPage)
    /\ SetPlayback(playAudioForCurrentPage(Playback, currentPage, FALSE), pending \ {p}, late)
    /\ UNCHANGED <<pages, storyPages, currentPageIndex, shouldAutoplay, pf, fetchLog,
                   mounted, autoplays, armedUnready>>

\* One promise of p, an awaited resume(), settles: the context runs again and
\* the handler goes on to setPlaybackStatus('playing').
SettleResume(p) ==
  \E resolves \in BOOLEAN : \E rest \in {pending, pending \ {p}} :
    /\ p.op = "resume"
    /\ resolves \/ CtxState(p.ctx) = "closed"
    /\ pending' = rest
    /\ sessions' = IF CtxState(p.ctx) = "suspended"
                   THEN [sessions EXCEPT ![p.ctx].state = "running", ![p.ctx].resumed = TRUE]
                   ELSE sessions
    /\ playbackStatus' = IF resolves THEN setPlaybackStatus("playing") ELSE playbackStatus
    /\ UNCHANGED <<pages, storyPages, currentPageIndex, shouldAutoplay, audioContextRef,
                   audioSourceRef, late, pf, fetchLog, mounted, raised, autoplays,
                   armedUnready>>

\* await audioContextRef.current.resume() settles.
ResumeSettled == \E p \in pending : SettleResume(p)

\* A mutant of handleNextPage: the page is turned without stopAudio().
handleNextPageNoStop ==
  IF currentPageIndex < NumPages - 1
  THEN /\ currentPageIndex' = currentPageIndex + 1
       /\ shouldAutoplay' = TRUE
       /\ autoplays' = 0
       /\ armedUnready' = (storyPages[currentPageIndex + 1].audioBuffer = Undefined)
       /\ UNCHANGED <<pages, storyPages, pf, fetchLog, mounted, sessions, pending, late,
                      audioContextRef, audioSourceRef, playbackStatus, raised>>
  ELSE UNCHANGED vars

\* A mutant of handleNextPage: the page is turned only once the destination
\* page's fetches have completed.
handleNextPageWaiting ==
  IF /\ currentPageIndex < NumPages - 1
     /\ ~storyPages[currentPageIndex + 1].isImageLoading
     /\ ~storyPages[currentPageIndex + 1].isAudioLoading
  THEN /\ \E throws \in BOOLEAN : SetPlayback(stopAudio(Playback, throws), pending, late)
       /\ currentPageIndex' = currentPageIndex + 1
       /\ shouldAutoplay' = TRUE
       /\ autoplays' = 0
       /\ armedUnready' = (storyPages[currentPageIndex + 1].audioBuffer = Undefined)
       /\ UNCHANGED <<pages, storyPages, pf, fetchLog, mounted>>
  ELSE UNCHANGED vars

\* A mutant of handleNextPage: turning the page fetches the destination
\* page's image again.
handleNextPageRefetching ==
  IF currentPageIndex < NumPages - 1
  THEN /\ \E throws \in BOOLEAN : SetPlayback(stopAudio(Playback, throws), pending, late)
       /\ currentPageIndex' = currentPageIndex + 1
       /\ shouldAutoplay' = TRUE
       /\ autoplays' = 0
       /\ armedUnready' = (storyPages[currentPageIndex + 1].audioBuffer = Undefined)
       /\ fetchLog' = Append(fetchLog, <<currentPageIndex + 1, "image">>)
       /\ UNCHANGED <<pages, storyPages, pf, mounted>>
  ELSE UNCHANGED vars

\* handleNextPage
handleNextPage ==
  IF currentPageIndex < NumPages - 1
  THEN /\ \E throws \in BOOLEAN : SetPlayback(stopAudio(Playback, throws), pending, late)
       /\ currentPageIndex' = currentPageIndex + 1
       /\ shouldAutoplay' = TRUE
       /\ autoplays' = 0
       /\ armedUnready' = (storyPages[currentPageIndex + 1].audioBuffer = Undefined)
       /\ UNCHANGED <<pages, storyPages, pf, fetchLog, mounted>>
  ELSE UNCHANGED vars

\* A mutant of handlePrevPage: the page is turned back without stopAudio().
handlePrevPageNoStop ==
  IF currentPageIndex > 0
  THEN /\ currentPageIndex' = currentPageIndex - 1
       /\ shouldAutoplay' = FALSE
       /\ UNCHANGED <<pages, storyPages, pf, fetchLog, mounted, autoplays, armedUnready,
                      sessions, pending, late, audioContextRef, audioSourceRef, playbackStatus,
                      raised>>
  ELSE UNCHANGED vars

\* A mutant of handlePrevPage: the intent is left as it was.
handlePrevPageKeepingIntent ==
  IF currentPageIndex > 0
  THEN /\ \E throws \in BOOLEAN : SetPlayback(stopAudio(Playback, throws), pending, late)
       /\ currentPageIndex' = currentPageIndex - 1
       /\ UNCHANGED <<pages, storyPages, pf, fetchLog, mounted, autoplays, armedUnready,
                      shouldAutoplay>>
  ELSE UNCHANGED vars

\* handlePrevPage
handlePrevPage ==
  IF currentPageIndex > 0
  THEN /\ \E throws \in BOOLEAN : SetPlayback(stopAudio(Playback, throws), pending, late)
       /\ currentPageIndex' = currentPageIndex - 1
       /\ shouldAutoplay' = FALSE
       /\ UNCHANGED <<pages, storyPages, pf, fetchLog, mounted, autoplays, armedUnready>>
  ELSE UNCHANGED vars

\* next() / previous() of the viewer.
ClickNext == mounted /\ handleNextPage
ClickPrev == mounted /\ handlePrevPage

\* The test of the autoplay effect: it plays when the intent is armed and
\* the page displayed has its audioBuffer.
autoplayEffect(armed, pageToPlay) == armed /\ pageToPlay.audioBuffer # Undefined

\* A mutant of AutoplayEffect: the intent is not consumed.
AutoplayEffectNotConsuming ==
  /\ mounted
  /\ shouldAutoplay
  /\ storyPages[currentPageIndex].audioBuffer # Undefined
  /\ CanCreate(currentPage)
  /\ \E throws \in BOOLEAN :
       SetPlayback(playAudioForCurrentPage(Playback, currentPage, throws), pending, late)
  /\ autoplays' = autoplays + 1
  /\ UNCHANGED <<pages, storyPages, currentPageIndex, pf, fetchLog, mounted, armedUnready,
                 shouldAutoplay>>

\* The autoplay effect, when it finds the intent armed and the audio ready.
AutoplayEffect ==
  /\ mounted
  /\ autoplayEffect(shouldAutoplay, storyPages[currentPageIndex])
  /\ CanCreate(currentPage)
  /\ \E throws \in BOOLEAN :
       SetPlayback(playAudioForCurrentPage(Playback, currentPage, throws), pending, late)
  /\ shouldAutoplay' = FALSE
  /\ autoplays' = autoplays + 1
  /\ UNCHANGED <<pages, storyPages, currentPageIndex, pf, fetchLog, mounted, armedUnready>>

\* The source of session s plays its buffer to the end: its ended event is queued.
SourceFinishes ==
  \E s \in DOMAIN sessions :
    /\ sessions[s].playing
    /\ sessions[s].state = "running"
    /\ sessions' = [sessions EXCEPT ![s].playing = FALSE, ![s].endedQueued = TRUE]
    /\ UNCHANGED <<pages, storyPages, currentPageIndex, playbackStatus, shouldAutoplay,
                   audioContextRef, audioSourceRef, pending, late, pf, fetchLog, mounted,
                   raised, autoplays, armedUnready>>

\* A mutant of SourceEnded: the handler calls stopAudio whatever the state
\* of the context.
SourceEndedStoppingPaused ==
  \E s \in DOMAIN sessions :
    /\ sessions[s].endedQueued
    /\ LET dequeued == [Playback EXCEPT !.sessions[s].endedQueued = FALSE] IN
       IF sessions[s].onended
       THEN \E throws \in BOOLEAN : SetPlayback(stopAudio(dequeued, throws), pending, late)
       ELSE SetPlayback(dequeued, pending, late)
    /\ UNCHANGED <<pages, storyPages, currentPageIndex, shouldAutoplay, pf,
                   fetchLog, mounted, autoplays, armedUnready>>

\* The ended event of session s is dispatched to source.onended.
SourceEnded ==
  \E s \in DOMAIN sessions :
    /\ sessions[s].endedQueued
    /\ LET dequeued == [Playback EXCEPT !.sessions[s].endedQueued = FALSE] IN
       IF sessions[s].onended /\ RefState # <<"suspended">>
       THEN \E throws \in BOOLEAN : SetPlayback(stopAudio(dequeued, throws), pending, late)
       ELSE SetPlayback(dequeued, pending, late)
    /\ UNCHANGED <<pages, storyPages, currentPageIndex, shouldAutoplay, pf,
                   fetchLog, mounted, autoplays, armedUnready>>

\* The ended event of a source that has been released is dispatched; h tells
\* whether the source still has its onended handler.  Further events of
\* released sources may stay queued.
StaleSourceEnded ==
  \E h \in late : \E rest \in {late, late \ {h}} :
    /\ IF h /\ RefState # <<"suspended">>
       THEN \E throws \in BOOLEAN : SetPlayback(stopAudio(Playback, throws), pending, rest)
       ELSE /\ late' = rest
            /\ UNCHANGED <<sessions, pending, audioContextRef, audioSourceRef,
                           playbackStatus, raised>>
    /\ UNCHANGED <<pages, storyPages, currentPageIndex, shouldAutoplay, pf,
                   fetchLog, mounted, autoplays, armedUnready>>

\* A mutant of Unmount: the viewer goes away without the cleanup's stopAudio.
UnmountWithoutStop ==
  /\ mounted
  /\ mounted' = FALSE
  /\ UNCHANGED <<pages, storyPages, currentPageIndex, shouldAutoplay, pf,
                 fetchLog, autoplays, armedUnready, sessions, pending, late,
                 audioContextRef, audioSourceRef, playbackStatus, raised>>

\* The viewer is unmounted (handleNewStory empties the story): the cleanup
\* of the last effect runs stopAudio.
Unmount ==
  /\ mounted
  /\ \E throws \in BOOLEAN : SetPlayback(stopAudio(Playback, throws), pending, late)
  /\ mounted' = FALSE
  /\ UNCHANGED <<pages, storyPages, currentPageIndex, shouldAutoplay, pf,
                 fetchLog, autoplays, armedUnready>>

\* ------------------------------------------------------------ specification
Init ==
  /\ pages \in Stories
  /\ storyPages = [i \in PageIdx |-> InitialPageState(pages[i])]
  /\ currentPageIndex = 0
  /\ playbackStatus = "stopped"
  /\ shouldAutoplay = FALSE
  /\ audioContextRef = Null
  /\ audioSourceRef = Null
  /\ sessions = <<>>
  /\ pending = {}
  /\ late = {}
  /\ pf = Suspended(0, "start", Undefined)
  /\ fetchLog = <<>>
  /\ mounted = TRUE
  /\ raised = FALSE
  /\ autoplays = 0
  /\ armedUnready = FALSE

Next ==
  \/ PrefetchStart
  \/ ImageResolved
  \/ ImageRejected
  \/ SpeechResolved
  \/ SpeechFailed
  \/ DecodeResolved
  \/ DecodeRejected
  \/ CloseResolved
  \/ CloseRejected
  \/ ClickPlayPause
  \/ SuspendSettled
  \/ ResumeSettled
  \/ ClickNext
  \/ ClickPrev
  \/ AutoplayEffect
  \/ SourceFinishes
  \/ SourceEnded
  \/ StaleSourceEnded
  \/ Unmount

Spec == Init /\ [][Next]_vars

\* A source that plays on a running context reaches the end of its buffer,
\* and the event loop dispatches a queued ended event.
LiveSpec == Spec /\ WF_vars(SourceFinishes) /\ WF_vars(SourceEnded)

\* A step of prefetchAssets: it starts, or the call it awaits returns or throws.
PipelineStep ==
  \/ PrefetchStart
  \/ ImageResolved \/ ImageRejected
  \/ SpeechResolved \/ SpeechFailed
  \/ DecodeResolved \/ DecodeRejected
  \/ CloseResolved \/ CloseRejected

\* The mount effect runs and every call prefetchAssets awaits settles.
PrefetchLiveSpec == Spec /\ WF_vars(PipelineStep)

\* ------------------------------------------------------------------ claims
\* The contexts of ss that are not closed: the live output sessions.
Open(ss) == {id \in DOMAIN ss : ss[id].state # "closed"}

\* A promise of a context that has been closed is still awaited.
OrphanAwaited == \E p \in pending : p.ctx = Null

\* A step in which play starts a session.
PlayStep == audioContextRef' # Null /\ audioContextRef' # audioContextRef

\* play(page) called in the current state, a session being live.
PlayOver(page, throws) == playAudioForCurrentPage(Playback, page, throws)

\* C1: in every reachable state at most one output session is live, and it
\* is the one the refs hold (no other session exists, so that play always
\* finds a session number); play(B) called while the session of play(A) is
\* live, with no stop() in between, leaves exactly one session live, which is
\* a new one, running and bound to page B's audioBuffer, the session of A
\* being closed; a step in which play starts a session leaves exactly that
\* session live, bound to the audioBuffer of the page that was played.
ExclusiveSession ==
  /\ [](/\ Cardinality(Open(sessions)) <= 1
        /\ \A id \in Open(sessions) : audioContextRef = id /\ audioSourceRef = id
        /\ DOMAIN sessions \subseteq {audioContextRef}
        /\ \A i \in PageIdx : CanCreate(storyPages[i]))
  /\ [](\A b \in PageIdx : \A throws \in BOOLEAN :
          (Open(sessions) # {} /\ storyPages[b].audioBuffer # Undefined) =>
            LET after == PlayOver(storyPages[b], throws) IN
              /\ ~after.raised
              /\ after.audioContextRef \notin DOMAIN sessions
              /\ after.audioSourceRef = after.audioContextRef
              /\ Open(after.sessions) = {after.audioContextRef}
              /\ after.sessions[after.audioContextRef].state = "running"
              /\ after.sessions[after.audioContextRef].playing
              /\ after.sessions[after.audioContextRef].buffer = storyPages[b].audioBuffer
              /\ after.sessions[audioContextRef].state = "closed"
              /\ ~after.sessions[audioContextRef].playing
              /\ after.playbackStatus = "playing")
  /\ [][PlayStep =>
          /\ Open(sessions') = {audioContextRef'}
          /\ audioSourceRef' = audioContextRef'
          /\ sessions'[audioContextRef'].state = "running"
          /\ sessions'[audioContextRef'].buffer = currentPage.audioBuffer
          /\ \A id \in Open(sessions) : id \notin Open(sessions')]_vars

\* C1 witness: the session of play(page 0) is live and plays, page 1's audio
\* is ready and is another buffer: the state in which play(page 1) is called
\* with no stop() in between.
ExclusiveSessionWitness ==
  /\ audioContextRef # Null
  /\ Open(sessions) = {audioContextRef}
  /\ sessions[audioContextRef].playing
  /\ sessions[audioContextRef].buffer = decodeAudioData(generateSpeech(TextOf(0)))
  /\ storyPages[1].audioBuffer # Undefined
  /\ storyPages[1].audioBuffer # storyPages[0].audioBuffer

\* C2: stop() called once or twice from any reachable state never raises,
\* leaves status stopped, no ref and no live session, and the second call
\* changes nothing; whatever the engine's source.stop() does on a source that
\* is no longer playing.
StopIdempotent ==
  /\ ~raised
  /\ \A t1, t2 \in BOOLEAN :
       LET once == stopAudio(Playback, t1)
           twice == stopAudio(once, t2)
       IN /\ ~once.raised
          /\ once.playbackStatus = "stopped"
          /\ once.audioContextRef = Null
          /\ once.audioSourceRef = Null
          /\ Open(once.sessions) = {}
          /\ twice = once

\* C2 witness: a paused session whose source has already finished by itself.
StopIdempotentWitness ==
  /\ audioSourceRef # Null
  /\ ~sessions[audioSourceRef].playing
  /\ playbackStatus = "paused"

\* A promise of op on the live session settles.
SettlesLive(op) ==
  /\ audioContextRef # Null
  /\ Awaited(op) \in pending
  /\ IF op = "suspend" THEN SettleSuspend(Awaited(op)) ELSE SettleResume(Awaited(op))

\* C3: while a session stays live it is the same session object (no step
\* creates a new one); the pause of the live session completes with status
\* paused and the session suspended, its resume with status playing and the
\* session running.
PauseResumeRoundTrip ==
  [][/\ (audioContextRef # Null /\ audioContextRef' # Null) =>
          /\ audioContextRef' = audioContextRef
          /\ audioSourceRef' = audioSourceRef
          /\ DOMAIN sessions' = DOMAIN sessions
          /\ sessions'[audioContextRef].buffer = sessions[audioContextRef].buffer
     /\ SettlesLive("suspend") =>
          /\ playbackStatus' = "paused"
          /\ sessions'[audioContextRef].state = "suspended"
     /\ SettlesLive("resume") =>
          /\ playbackStatus' = "playing"
          /\ sessions'[audioContextRef].state = "running"]_vars

\* C3 witness: the live session has been paused and resumed and plays again.
PauseResumeRoundTripWitness ==
  /\ audioContextRef # Null
  /\ sessions[audioContextRef].resumed
  /\ sessions[audioContextRef].state = "running"
  /\ playbackStatus = "playing"
  /\ pending = {}

\* The audio buffers the pipeline can deliver for the pages of the story.
Buffers == {decodeAudioData(generateSpeech(pages[i].text)) : i \in PageIdx}

\* C4: since the intent was last armed at most one automatic play has
\* happened, and it disarmed the intent; an armed intent whose page has its
\* audio ready does trigger the automatic play.  With the intent disarmed the
\* autoplay effect plays nothing, whatever audioBuffer a completion stores
\* on the page displayed (a second completion for the same page included);
\* the automatic plays are counted anew only by next(), and any other step
\* that starts a session is a click on play.
AutoplayOnce ==
  /\ [](/\ autoplays <= 1
        /\ shouldAutoplay => autoplays = 0
        /\ (mounted /\ shouldAutoplay /\ currentPage.audioBuffer # Undefined)
             => ENABLED AutoplayEffect
        /\ \A b \in Buffers :
             ~shouldAutoplay =>
               ~autoplayEffect(shouldAutoplay, [currentPage EXCEPT !.audioBuffer = b]))
  /\ [][/\ autoplays' > autoplays =>
             /\ AutoplayEffect
             /\ shouldAutoplay /\ ~shouldAutoplay'
             /\ autoplays' = autoplays + 1
             /\ PlayStep
        /\ autoplays' < autoplays => (ClickNext /\ shouldAutoplay')
        /\ (PlayStep /\ autoplays' = autoplays) => ClickPlayPause]_vars

\* C4 witness: the intent was armed for a page whose audio was not ready, the
\* audio arrived and the one automatic play has started.
AutoplayOnceWitness ==
  /\ armedUnready
  /\ autoplays = 1
  /\ ~shouldAutoplay
  /\ playbackStatus = "playing"
  /\ audioContextRef # Null

\* The gateway calls issued so far for asset kind of page i.
FetchCount(i, kind) == Cardinality({n \in DOMAIN fetchLog : fetchLog[n] = <<i, kind>>})
Wanted(i, kind) == IF kind = "image" THEN pages[i].imagePrompt # Empty ELSE pages[i].text # Empty
Kinds == {"image", "audio"}

\* C5 (as claimed): no fetch waits for another one, so while any fetch is in
\* flight every fetch of the story has been issued.
FetchesIndependent ==
  pf.phase \in {"image", "speech", "decode", "close"} =>
    \A i \in PageIdx : \A kind \in Kinds : Wanted(i, kind) => FetchCount(i, kind) >= 1

\* What page i holds once its fetches have succeeded.
Populated(i) ==
  [text |-> pages[i].text, imagePrompt |-> pages[i].imagePrompt,
   imageUrl |-> IF Wanted(i, "image") THEN generateImage(pages[i].imagePrompt) ELSE Undefined,
   audioData |-> IF Wanted(i, "audio") THEN generateSpeech(pages[i].text) ELSE Undefined,
   audioBuffer |-> IF Wanted(i, "audio") THEN decodeAudioData(generateSpeech(pages[i].text))
                   ELSE Undefined,
   isImageLoading |-> FALSE, isAudioLoading |-> FALSE,
   imageError |-> FALSE, audioError |-> FALSE]

\* The updates the successful fetch completions of the story make, as
\* <<page, update>>, and every order they can be applied in.
Completions ==
  {<<i, [imageUrl |-> Populated(i).imageUrl, isImageLoading |-> FALSE]>> :
     i \in {j \in PageIdx : Wanted(j, "image")}}
  \cup
  {<<i, [audioData |-> Populated(i).audioData, audioBuffer |-> Populated(i).audioBuffer,
         isAudioLoading |-> FALSE]>> :
     i \in {j \in PageIdx : Wanted(j, "audio")}}
Orders ==
  {o \in [1 .. Cardinality(Completions) -> Completions] :
     \A m, n \in DOMAIN o : o[m] = o[n] => m = n}

\* updatePage applied for the first n completions of order o.
RECURSIVE ApplyCompletions(_, _, _)
ApplyCompletions(sp, o, n) ==
  IF n = 0 THEN sp
  ELSE updatePage(ApplyCompletions(sp, o, n - 1), o[n][1], o[n][2])

\* C6: text and imagePrompt never change, an asset a page holds is the result
\* of that page's own fetch, and once the pipeline has ended with every
\* fetch successful every page is fully populated; updatePage applied to the
\* initial pages for the story's completions, in whatever order they arrive,
\* gives that same fully populated state.
PopulatedInAnyOrder ==
  /\ pf.phase = "start" =>
       \A o \in Orders :
         ApplyCompletions(storyPages, o, Cardinality(Completions))
           = [i \in PageIdx |-> Populated(i)]
  /\ \A i \in PageIdx :
       /\ storyPages[i].text = pages[i].text
       /\ storyPages[i].imagePrompt = pages[i].imagePrompt
       /\ storyPages[i].imageUrl \in {Undefined, Populated(i).imageUrl}
       /\ storyPages[i].audioData \in {Undefined, Populated(i).audioData}
       /\ storyPages[i].audioBuffer \in {Undefined, Populated(i).audioBuffer}
  /\ (/\ mounted
      /\ pf.phase = "done"
      /\ \A i \in PageIdx : ~storyPages[i].imageError /\ ~storyPages[i].audioError)
     => \A i \in PageIdx : storyPages[i] = Populated(i)

\* C6 witness: the pipeline has ended and every page has image and audio.
PopulatedInAnyOrderWitness ==
  /\ mounted
  /\ pf.phase = "done"
  /\ \A i \in PageIdx :
       storyPages[i].imageUrl # Undefined /\ storyPages[i].audioBuffer # Undefined

\* C7: an error flag that is set stays set, and no fetch of that asset kind
\* is issued for that page afterwards.
StickyError ==
  [][\A i \in PageIdx :
       /\ storyPages[i].imageError =>
            storyPages'[i].imageError /\ FetchCount(i, "image")' = FetchCount(i, "image")
       /\ storyPages[i].audioError =>
            storyPages'[i].audioError /\ FetchCount(i, "audio")' = FetchCount(i, "audio")]_vars

\* C7 witness: page 0's image failed; the pipeline has ended, the user has
\* turned to page 1 and its audio plays.
StickyErrorWitness ==
  /\ storyPages[0].imageError
  /\ pf.phase = "done"
  /\ currentPageIndex = 1
  /\ playbackStatus = "playing"

\* C8 (as claimed): at most one fetch per page and asset kind, and exactly one
\* once the pipeline has ended.
FetchExactlyOnce ==
  \A i \in PageIdx : \A kind \in Kinds :
    /\ FetchCount(i, kind) <= 1
    /\ pf.phase = "done" => FetchCount(i, kind) = 1

\* C8 (amended): at most one fetch per page and asset kind; once the pipeline
\* has ended exactly one for an asset whose imagePrompt / text is not empty
\* and none for one whose is; a fetch is issued by a step of the pipeline
\* only, never by a step that turns the page or changes the playback.
FetchOncePerWantedAsset ==
  /\ [](\A i \in PageIdx : \A kind \in Kinds :
          /\ FetchCount(i, kind) <= 1
          /\ pf.phase = "done" => FetchCount(i, kind) = IF Wanted(i, kind) THEN 1 ELSE 0)
  /\ [][fetchLog' # fetchLog =>
          /\ pf' # pf
          /\ currentPageIndex' = currentPageIndex
          /\ playbackStatus' = playbackStatus
          /\ shouldAutoplay' = shouldAutoplay]_vars

\* C8 witness: the pipeline has ended for a story with an empty imagePrompt,
\* and the user is back on page 0 after having turned to page 1.
FetchOncePerWantedAssetWitness ==
  /\ pf.phase = "done"
  /\ \E i \in PageIdx : ~Wanted(i, "image") /\ FetchCount(i, "image") = 0
  /\ armedUnready
  /\ currentPageIndex = 0

\* C9: next() is possible whenever the page shown is not the last one,
\* whatever is loading; a step that turns the page changes no page record and
\* nothing of the pipeline; a loading flag is cleared only by the completion
\* of that page's own fetch.
NavigationNeverBlocks ==
  /\ []((mounted /\ currentPageIndex < NumPages - 1) =>
          ENABLED (ClickNext /\ currentPageIndex' = currentPageIndex + 1))
  /\ [][/\ currentPageIndex' # currentPageIndex =>
             storyPages' = storyPages /\ pf' = pf /\ fetchLog' = fetchLog
        /\ \A i \in PageIdx :
             /\ (storyPages[i].isImageLoading /\ ~storyPages'[i].isImageLoading) =>
                  pf.phase = "image" /\ PageOfSlot(pf.k) = i /\ pf' # pf
             /\ (storyPages[i].isAudioLoading /\ ~storyPages'[i].isAudioLoading) =>
                  pf.phase \in {"speech", "decode", "close"} /\ PageOfSlot(pf.k) = i /\ pf' # pf]_vars

\* C9 witness: the user has turned to page 1 while its image is loading.
NavigationNeverBlocksWitness ==
  /\ currentPageIndex = 1
  /\ shouldAutoplay
  /\ autoplays = 0
  /\ storyPages[1].isImageLoading

\* C10: a step that advances the index advances it by one, leaves status
\* stopped, no ref and no live session, and arms the intent; next() on a page
\* that is not the last one is such a step, next() on the last page changes
\* nothing; the index stays below pageCount.
NextContract ==
  /\ [](currentPageIndex \in PageIdx)
  /\ [][/\ currentPageIndex' > currentPageIndex =>
             /\ currentPageIndex' = currentPageIndex + 1
             /\ playbackStatus' = "stopped"
             /\ audioContextRef' = Null
             /\ audioSourceRef' = Null
             /\ Open(sessions') = {}
             /\ shouldAutoplay'
        /\ (ClickNext /\ currentPageIndex < NumPages - 1) =>
             currentPageIndex' = currentPageIndex + 1
        /\ (ClickNext /\ currentPageIndex = NumPages - 1) => UNCHANGED vars]_vars

\* C10 witness: next() has stopped a playback whose pause was still awaited:
\* page 1 is shown, nothing plays, the intent is armed.
NextContractWitness ==
  /\ currentPageIndex = 1
  /\ shouldAutoplay
  /\ autoplays = 0
  /\ playbackStatus = "stopped"
  /\ audioContextRef = Null
  /\ OrphanAwaited

\* C11: a step that lowers the index lowers it by one, leaves status stopped,
\* no ref, no live session and the intent disarmed; previous() on a page that
\* is not the first one is such a step, previous() on page 0 changes nothing;
\* an automatic play happens only with the intent armed; the index never
\* goes below 0.
PrevContract ==
  /\ [](currentPageIndex >= 0)
  /\ [][/\ currentPageIndex' < currentPageIndex =>
             /\ currentPageIndex' = currentPageIndex - 1
             /\ playbackStatus' = "stopped"
             /\ audioContextRef' = Null
             /\ audioSourceRef' = Null
             /\ Open(sessions') = {}
             /\ ~shouldAutoplay'
        /\ (ClickPrev /\ currentPageIndex > 0) =>
             currentPageIndex' = currentPageIndex - 1
        /\ (ClickPrev /\ currentPageIndex = 0) => UNCHANGED vars
        /\ autoplays' = autoplays + 1 => shouldAutoplay]_vars

\* C11 witness: the intent was armed for page 1, whose audio is still not
\* there, and previous() has brought the user back to page 0 with the intent
\* disarmed and no automatic play.
PrevContractWitness ==
  /\ currentPageIndex = 0
  /\ armedUnready
  /\ autoplays = 0
  /\ ~shouldAutoplay
  /\ storyPages[1].audioBuffer = Undefined
  /\ playbackStatus = "stopped"

\* C12 (as claimed): every toggle() disarms the intent; from status stopped
\* it starts a session bound to the current page's audioBuffer, from status
\* playing it pauses the live session (its suspend is awaited), from status
\* paused it resumes the live session (its resume is awaited).
ToggleDispatch ==
  [][ClickPlayPause =>
       /\ ~shouldAutoplay'
       /\ playbackStatus = "stopped" =>
            /\ PlayStep
            /\ playbackStatus' = "playing"
            /\ sessions'[audioContextRef'].buffer = currentPage.audioBuffer
       /\ playbackStatus = "playing" =>
            audioContextRef # Null /\ Awaited("suspend") \in pending'
       /\ playbackStatus = "paused" =>
            audioContextRef # Null /\ Awaited("resume") \in pending']_vars

\* C13: the step that tears the viewer down leaves no live session, whatever
\* the status was; once the viewer is torn down no session is live, no ref
\* is held, and no step (a prefetch completion, a pause or resume promise
\* settling, an ended event) creates a session or sets a ref.
TeardownReleases ==
  /\ [](~mounted => Open(sessions) = {} /\ audioContextRef = Null /\ audioSourceRef = Null)
  /\ [][/\ (mounted /\ ~mounted') =>
             Open(sessions') = {} /\ audioContextRef' = Null /\ audioSourceRef' = Null
        /\ ~mounted =>
             /\ ~mounted'
             /\ DOMAIN sessions' \subseteq DOMAIN sessions]_vars

\* C13 witness: the viewer was torn down while the pipeline was in flight
\* and a pause or resume of the session it stopped was still awaited.
TeardownReleasesWitness ==
  /\ ~mounted
  /\ OrphanAwaited
  /\ pf.phase \in {"image", "speech", "decode", "close"}

\* The step issues the fetch of asset kind of page j.
Issues(j, kind) == fetchLog' = Append(fetchLog, <<j, kind>>)

\* Page j's record is left alone, or the step that issues a fetch of page j
\* sets the loading flag of that fetch and nothing else.
OnlyFetchStarted(j) ==
  \/ storyPages'[j] = storyPages[j]
  \/ Issues(j, "image") /\ storyPages'[j] = Merge(storyPages[j], [isImageLoading |-> TRUE])
  \/ Issues(j, "audio") /\ storyPages'[j] = Merge(storyPages[j], [isAudioLoading |-> TRUE])

\* The failure of the fetch in flight writes flags to page i's record and
\* the pipeline goes on (a fetch it then issues sets that fetch's loading flag).
FailureWrites(i, flags) ==
  /\ pf' # pf
  /\ pf'.k > pf.k
  /\ \/ storyPages'[i] = Merge(storyPages[i], flags)
     \/ /\ Issues(i, "audio")
        /\ storyPages'[i] = Merge(Merge(storyPages[i], flags), [isAudioLoading |-> TRUE])
  /\ \A j \in PageIdx \ {i} : OnlyFetchStarted(j)

\* C14: a failed image fetch of page i sets imageError and clears
\* isImageLoading of page i and writes nothing else, and that page's audio is
\* then fetched; a failed synthesis or decode (or a failed close of the
\* decoding context) sets audioError and clears isAudioLoading of page i,
\* leaving audioData and audioBuffer unset; no other
\* page's record changes (but for the loading flag of the fetch the pipeline
\* issues next), and the pipeline reaches its end with every fetch issued.
FailureContained ==
  /\ [](pf.phase = "done" =>
          \A i \in PageIdx : \A kind \in Kinds : Wanted(i, kind) => FetchCount(i, kind) = 1)
  /\ [][/\ (mounted /\ ImageRejected) => storyPages'[PageOfSlot(pf.k)].imageError
        /\ (mounted /\ (SpeechFailed \/ DecodeRejected \/ CloseRejected)) => storyPages'[PageOfSlot(pf.k)].audioError
        /\ \A i \in PageIdx :
             /\ (~storyPages[i].imageError /\ storyPages'[i].imageError) =>
                  /\ pf.phase = "image" /\ PageOfSlot(pf.k) = i
                  /\ FailureWrites(i, [imageError |-> TRUE, isImageLoading |-> FALSE])
                  /\ Wanted(i, "audio") => Issues(i, "audio")
             /\ (~storyPages[i].audioError /\ storyPages'[i].audioError) =>
                  /\ pf.phase \in {"speech", "decode", "close"} /\ PageOfSlot(pf.k) = i
                  /\ FailureWrites(i, [audioError |-> TRUE, isAudioLoading |-> FALSE])
                  /\ storyPages'[i].audioData = Undefined
                  /\ storyPages'[i].audioBuffer = Undefined]_vars

\* C14 witness: page 0's image failed and its audio was decoded, page 1's
\* audio failed and its image arrived; the pipeline has ended.
FailureContainedWitness ==
  /\ mounted
  /\ pf.phase = "done"
  /\ storyPages[0].imageError /\ storyPages[0].imageUrl = Undefined
  /\ storyPages[0].audioBuffer # Undefined /\ ~storyPages[0].audioError
  /\ storyPages[1].audioError /\ storyPages[1].audioBuffer = Undefined
  /\ storyPages[1].imageUrl # Undefined /\ ~storyPages[1].imageError

\* C15: audioData and audioBuffer of a page are set together; a page that
\* has its image (its audio) has neither the loading flag nor the error flag
\* of the image (the audio) set; an asset that is set keeps its value in
\* every step.
AssetMonotone ==
  /\ [](\A i \in PageIdx :
          /\ (storyPages[i].audioData = Undefined) = (storyPages[i].audioBuffer = Undefined)
          /\ storyPages[i].imageUrl # Undefined =>
               ~storyPages[i].isImageLoading /\ ~storyPages[i].imageError
          /\ storyPages[i].audioBuffer # Undefined =>
               ~storyPages[i].isAudioLoading /\ ~storyPages[i].audioError)
  /\ [][\A i \in PageIdx :
          /\ storyPages[i].imageUrl # Undefined => storyPages'[i].imageUrl = storyPages[i].imageUrl
          /\ storyPages[i].audioData # Undefined => storyPages'[i].audioData = storyPages[i].audioData
          /\ storyPages[i].audioBuffer # Undefined =>
               storyPages'[i].audioBuffer = storyPages[i].audioBuffer]_vars

\* C15 witness: page 0 has its image and its audio, which plays, while the
\* pipeline is fetching for page 1.
AssetMonotoneWitness ==
  /\ storyPages[0].imageUrl # Undefined
  /\ storyPages[0].audioBuffer # Undefined
  /\ pf.phase \in {"image", "speech", "decode", "close"}
  /\ PageOfSlot(pf.k) = 1
  /\ playbackStatus = "playing"

\* The fetch of asset kind of page i is in flight: prefetchAssets is
\* suspended at one of its awaits.
InFlight(i, kind) ==
  /\ PageOfSlot(pf.k) = i
  /\ IF kind = "image" THEN pf.phase = "image" ELSE pf.phase \in {"speech", "decode", "close"}

\* How many of {asset set, loading flag, error flag} hold.
Count(set, loading, error) ==
  (IF set THEN 1 ELSE 0) + (IF loading THEN 1 ELSE 0) + (IF error THEN 1 ELSE 0)

\* C16: while the viewer shows the story, a page's isImageLoading is true
\* exactly while its image fetch is in flight and its isAudioLoading exactly
\* while its audio fetch (synthesis, decode, close) is in flight; for each
\* asset kind at most one of asset set, loading flag and error flag holds.
LoadingWhileInFlight ==
  \A i \in PageIdx :
    /\ mounted => /\ storyPages[i].isImageLoading = InFlight(i, "image")
                  /\ storyPages[i].isAudioLoading = InFlight(i, "audio")
    /\ Count(storyPages[i].imageUrl # Undefined, storyPages[i].isImageLoading,
             storyPages[i].imageError) <= 1
    /\ Count(storyPages[i].audioBuffer # Undefined, storyPages[i].isAudioLoading,
             storyPages[i].audioError) <= 1

\* C16 witness: page 1 is shown while its audio is being decoded, page 0's
\* image having failed.
LoadingWhileInFlightWitness ==
  /\ mounted
  /\ currentPageIndex = 1
  /\ pf.phase = "decode"
  /\ InFlight(1, "audio")
  /\ storyPages[1].isAudioLoading
  /\ storyPages[0].imageError

\* C17 (as claimed): while the viewer is shown, status is stopped exactly
\* when no session is live, paused only when the live session is suspended
\* and playing only when the live session is running.
StatusMatchesSession ==
  mounted =>
    /\ (playbackStatus = "stopped") = (Open(sessions) = {})
    /\ playbackStatus = "paused" => RefState = <<"suspended">>
    /\ playbackStatus = "playing" => RefState = <<"running">>

\* C18: a source that stop() or a later play() released has no handler: the
\* only source with a handler is the one the ref holds, and every ended
\* event queued for a released source finds none.  The step that dispatches
\* such a late event changes neither the status nor the refs nor any
\* session, whatever playback is live by then.
StaleCompletionIgnored ==
  /\ [](/\ \A s \in DOMAIN sessions : s # audioSourceRef => ~sessions[s].onended
        /\ \A h \in late : ~h)
  /\ [][StaleSourceEnded =>
          UNCHANGED <<playbackStatus, audioContextRef, audioSourceRef, sessions,
                      pending, shouldAutoplay, currentPageIndex, storyPages>>]_vars

\* C18 witness: page 0's source was released by next() while it played, its
\* ended event is still queued, and page 1's audio is live and playing when
\* the late event is about to be dispatched.
StaleCompletionIgnoredWitness ==
  /\ late # {}
  /\ ENABLED StaleSourceEnded
  /\ currentPageIndex = 1
  /\ audioSourceRef # Null
  /\ sessions[audioSourceRef].playing
  /\ sessions[audioSourceRef].state = "running"
  /\ sessions[audioSourceRef].buffer = decodeAudioData(generateSpeech(TextOf(1)))
  /\ playbackStatus = "playing"

\* The live session plays its page and has never been paused.
PlayingUnpaused ==
  /\ playbackStatus = "playing"
  /\ RefState = <<"running">>
  /\ ~sessions[audioContextRef].resumed

\* C19: the ended event of the live source, dispatched while the context is
\* not suspended, leaves status stopped, no ref and no live session;
\* dispatched while the context is suspended it leaves status, refs and the
\* suspended session as they are; a session that plays and has never been
\* paused leads to status stopped unless it is paused first.
NaturalCompletion ==
  /\ [][SourceEnded =>
          IF RefState # <<"suspended">>
          THEN /\ playbackStatus' = "stopped"
               /\ audioContextRef' = Null
               /\ audioSourceRef' = Null
               /\ Open(sessions') = {}
          ELSE /\ playbackStatus' = playbackStatus
               /\ audioContextRef' = audioContextRef
               /\ audioSourceRef' = audioSourceRef
               /\ sessions'[audioContextRef].state = "suspended"]_vars
  /\ (PlayingUnpaused ~> (playbackStatus = "stopped" \/ RefState = <<"suspended">>))

\* C19 witness: the audio has played to its end on the running context and
\* its ended event is about to be dispatched.
NaturalCompletionWitness ==
  /\ PlayingUnpaused
  /\ ~sessions[audioContextRef].playing
  /\ sessions[audioContextRef].endedQueued
  /\ pending = {}

\* C20: every live session is the one the refs hold and is bound to the
\* audioBuffer of the page that is shown, which is the buffer decoded from
\* that page's own text.
BoundToCurrentPage ==
  \A id \in Open(sessions) :
    /\ id = audioContextRef
    /\ sessions[id].buffer = currentPage.audioBuffer
    /\ sessions[id].buffer = decodeAudioData(generateSpeech(pages[currentPageIndex].text))

\* C20 witness: after an automatic play on page 1 the user is back on page 0
\* and page 0's audio is live.
BoundToCurrentPageWitness ==
  /\ currentPageIndex = 0
  /\ autoplays = 1
  /\ audioContextRef # Null
  /\ Open(sessions) = {audioContextRef}
  /\ sessions[audioContextRef].buffer = decodeAudioData(generateSpeech(TextOf(0)))
  /\ playbackStatus \in {"playing", "paused"}

\* No loading flag of page i is set, and each asset kind has its asset or
\* its error flag.
HasAssetOrError(i) ==
  /\ ~storyPages[i].isImageLoading /\ ~storyPages[i].isAudioLoading
  /\ storyPages[i].imageUrl # Undefined \/ storyPages[i].imageError
  /\ storyPages[i].audioBuffer # Undefined \/ storyPages[i].audioError

\* C21 (as claimed): once every call prefetchAssets issued has returned,
\* every page of the story shown has, for each asset kind, the asset or the
\* error flag, and no loading flag.
PrefetchSettlesEveryAsset ==
  (mounted /\ pf.phase = "done") => \A i \in PageIdx : HasAssetOrError(i)

\* As HasAssetOrError, for the asset kinds whose imagePrompt / text is not
\* empty; an asset kind whose is empty has neither asset nor error flag.
Settled(i) ==
  /\ ~storyPages[i].isImageLoading /\ ~storyPages[i].isAudioLoading
  /\ IF Wanted(i, "image")
     THEN (storyPages[i].imageUrl # Undefined) # storyPages[i].imageError
     ELSE storyPages[i].imageUrl = Undefined /\ ~storyPages[i].imageError
  /\ IF Wanted(i, "audio")
     THEN (storyPages[i].audioBuffer # Undefined) # storyPages[i].audioError
     ELSE storyPages[i].audioBuffer = Undefined /\ ~storyPages[i].audioError

\* C21 (amended): when every call prefetchAssets awaits settles, the
\* pipeline reaches its end, whatever the user does meanwhile; at its end
\* every page of the story shown has no loading flag and, for each asset kind
\* whose imagePrompt / text is not empty, either the asset or the error flag.
PrefetchTerminates ==
  /\ <>(pf.phase = "done")
  /\ []((mounted /\ pf.phase = "done") => \A i \in PageIdx : Settled(i))

\* C21 witness: the pipeline has ended while page 1's audio plays; page 0's
\* audio failed, its image arrived.
PrefetchTerminatesWitness ==
  /\ mounted
  /\ pf.phase = "done"
  /\ currentPageIndex = 1
  /\ playbackStatus = "playing"
  /\ audioContextRef # Null
  /\ storyPages[0].audioError
  /\ storyPages[0].imageUrl # Undefined

\* The fetches of pages i.. in story order: for each page its image, then
\* its audio, leaving out an asset whose imagePrompt / text is empty.
RECURSIVE StoryOrder(_)
StoryOrder(i) ==
  IF i = NumPages THEN <<>>
  ELSE (IF Wanted(i, "image") THEN << <<i, "image">> >> ELSE <<>>)
       \o (IF Wanted(i, "audio") THEN << <<i, "audio">> >> ELSE <<>>)
       \o StoryOrder(i + 1)

\* C22: fetches are issued in story order: of two fetches issued, the
\* earlier one is of an earlier page, or of the same page with the image
\* before the audio.  The fetches issued so far are a prefix of an order that
\* the pages alone determine, so the page displayed has no influence; a step
\* that only navigates or plays issues nothing.
IssuedInStoryOrder ==
  /\ [](\A m, n \in DOMAIN fetchLog :
          m < n => \/ fetchLog[m][1] < fetchLog[n][1]
                   \/ /\ fetchLog[m][1] = fetchLog[n][1]
                      /\ fetchLog[m][2] = "image"
                      /\ fetchLog[n][2] = "audio")
  /\ [](/\ Len(fetchLog) <= Len(StoryOrder(0))
        /\ fetchLog = SubSeq(StoryOrder(0), 1, Len(fetchLog)))
  /\ [][fetchLog' # fetchLog => PipelineStep]_vars

\* C22 witness: page 1 is displayed and none of its fetches has been
\* issued; the fetch in flight is the audio of page 0, issued after page 0's
\* image.
IssuedInStoryOrderWitness ==
  /\ currentPageIndex = 1
  /\ pf.phase = "speech"
  /\ fetchLog = << <<0, "image">>, <<0, "audio">> >>
  /\ Wanted(1, "image") /\ Wanted(1, "audio")
  /\ storyPages[1].imageUrl = Undefined /\ ~storyPages[1].isImageLoading

\* The handlers and effects of the mounted viewer have run to quiescence: the
\* autoplay effect has nothing to do and no handler is suspended at an await.
Quiescent == mounted /\ ~ENABLED AutoplayEffect /\ pending = {}

\* C23 (as claimed): at quiescence an armed intent implies that the current
\* index is at least 1, that the page displayed has no audioBuffer and that
\* the status is stopped.
ArmedOnlyByNext ==
  (Quiescent /\ shouldAutoplay) =>
    /\ currentPageIndex >= 1
    /\ currentPage.audioBuffer = Undefined
    /\ playbackStatus = "stopped"
====
